---- MODULE Spec2Model ----
(***************************************************************************)
(* Model of packages/gatsby/src/redux/persist.ts: the redux state is       *)
(* cached as one core file (the state without its nodes) plus chunk files  *)
(* holding the entries of the nodes Map.                                   *)
(*                                                                         *)
(* Sizes are counted in KiB (1024 bytes): every byte count of the source   *)
(* that the model uses is a whole number of KiB, so the divisions of the   *)
(* source are reproduced exactly.                                          *)
(***************************************************************************)
EXTENDS Integers, Sequences, FiniteSets, TLC

\* ------------------------------------------------------------------ bounds
\* The largest nodes Map a caller passes to writeToCache.
MaxNodes == 79

\* The values of the one core field (everything of the state but nodes).
MaxProgram == 2

\* The revisions of a node: the same key holds different values in different
\* revisions.
MaxRev == 2

\* The largest encoded size, in units of the scale, of an entry handed to
\* guessSafeChunkSize on its own.
MaxSampleSize == 40

\* ------------------------------------------------------- the values stored
\* obj.nodes / contents.nodes is either undefined or a Map.  A Map is kept as
\* the sequence of its [key, value] entries in insertion order, keys unique.
Undefined == [type |-> "undefined", entries |-> <<>>]

MapOf(es) == [type |-> "Map", entries |-> es]

\* Encoded size of one [key, node] entry in KiB.  In revision r the node of
\* key r is a very large page (about 1.9 GiB, which still fits a Buffer of
\* 2 GiB together with the small nodes of its chunk); every other node takes
\* 1 KiB.
NodeKiB(id, rev) == IF id = rev THEN 2000000 ELSE 1

\* IReduxNode: an opaque value; id and rev tell two nodes apart, kib is what
\* the codec needs to encode it.
Node(id, rev) == [id |-> id, rev |-> rev, kib |-> NodeKiB(id, rev)]

\* A nodes Map of n entries with keys 1..n inserted in increasing order.
NodesMap(n, rev) == MapOf([k \in 1..n |-> <<k, Node(k, rev)>>])

\* The sizes of the nodes Maps the callers pass: empty, one entry, the
\* smallest and the largest.
NodeCounts == {0, 1, 11, MaxNodes}

\* ICachedReduxState values passed to writeToCache.
NodesInputs ==
  {Undefined} \cup {NodesMap(n, rev) : n \in NodeCounts, rev \in 1..MaxRev}

\* ------------------------------------------------------------ the v8 codec
\* A Buffer is a sequence of tokens; every token is a record of the same
\* shape: a tag, two integer arguments and the KiB it takes in the buffer.
Tok(tag, a, b, w) == [tag |-> tag, a |-> a, b |-> b, w |-> w]

\* v8.serialize of a nodes field that is undefined or a Map.
SerializeNodesField(nodes) ==
  IF nodes.type = "undefined" THEN << Tok("_", 0, 0, 0) >>
  ELSE LET es == nodes.entries
       IN [p \in 1..(1 + 2 * Len(es)) |->
            IF p = 1 THEN Tok(";", Len(es), 0, 0)
            ELSE LET j == p \div 2
                 IN IF p % 2 = 0
                    THEN Tok("S", es[j][1], 0, 0)
                    ELSE Tok("N", es[j][2].id, es[j][2].rev, es[j][2].kib)]

\* v8.serialize(contents): the object header, the core field, the nodes field.
SerializeState(c) ==
  << Tok("o", 2, 0, 0), Tok("I", c.program, 0, 0) >> \o SerializeNodesField(c.nodes)

\* v8.deserialize of a core file.
DeserializeState(buf) ==
  [program |-> buf[2].a,
   nodes   |-> IF buf[3].tag = "_" THEN Undefined
               ELSE MapOf([j \in 1..buf[3].a |->
                            << buf[2 + 2 * j].a,
                               [id  |-> buf[3 + 2 * j].a,
                                rev |-> buf[3 + 2 * j].b,
                                kib |-> buf[3 + 2 * j].w] >>])]

\* v8.serialize of an array of [key, node] entries: the array header, then
\* for each entry a two-element array header, the key and the node.
SerializeEntries(es) ==
  [p \in 1..(1 + 3 * Len(es)) |->
    IF p = 1 THEN Tok("A", Len(es), 0, 0)
    ELSE LET j == (p + 1) \div 3
             r == (p + 1) % 3
         IN IF r = 0 THEN Tok("A", 2, 0, 0)
            ELSE IF r = 1 THEN Tok("S", es[j][1], 0, 0)
            ELSE Tok("N", es[j][2].id, es[j][2].rev, es[j][2].kib)]

\* v8.deserialize of a chunk file.
DeserializeEntries(buf) ==
  [j \in 1..buf[1].a |->
    << buf[3 * j].a,
       [id |-> buf[3 * j + 1].a, rev |-> buf[3 * j + 1].b, kib |-> buf[3 * j + 1].w] >>]

\* v8.serialize(values[i]): one [key, node] entry on its own.
SerializeEntry(e) ==
  << Tok("A", 2, 0, 0), Tok("S", e[1], 0, 0), Tok("N", e[2].id, e[2].rev, e[2].kib) >>

RECURSIVE SumKiB(_, _)
SumKiB(buf, n) == IF n = 0 THEN 0 ELSE buf[n].w + SumKiB(buf, n - 1)

\* Buffer.length, in KiB.
BufferLength(buf) == SumKiB(buf, Len(buf))

\* ------------------------------------------------------------- JS numbers
\* The numbers of the write path are finite integers, Infinity (a division
\* by zero) or NaN (zero divided by zero).
Finite(n) == [kind |-> "finite", val |-> n]

Infinity == [kind |-> "Infinity", val |-> 0]

NaN == [kind |-> "NaN", val |-> 0]

\* A division that yields 0 when the divisor is 0.
FloorDivZeroIsZero(a, b) == IF b = 0 THEN Finite(0) ELSE Finite(a \div b)

\* A subtraction in the place of the division.
TargetMinusSize(a, b) == Finite(a - b)

\* Math.floor(a / b) for an integer a > 0 and an integer b >= 0.
FloorDiv(a, b) == IF b = 0 THEN Infinity ELSE Finite(a \div b)

\* Math.ceil(n / d) for an integer n >= 0 and d the result of FloorDiv.
CeilDiv(n, d) ==
  IF d.kind = "Infinity" THEN Finite(0)
  ELSE IF d.val = 0 THEN (IF n = 0 THEN NaN ELSE Infinity)
  ELSE Finite((n + d.val - 1) \div d.val)

\* i < x for an integer i and a JS number x.
LessThan(i, x) ==
  IF x.kind = "Infinity" THEN TRUE
  ELSE IF x.kind = "NaN" THEN FALSE
  ELSE i < x.val

Max(a, b) == IF a >= b THEN a ELSE b

Min(a, b) == IF a <= b THEN a ELSE b

\* ------------------------------------------------------------ the files
\* The chunk file of index i is named chunkFilePrefix() + i, i in decimal.
RECURSIVE Decimal(_)
Decimal(n) == IF n < 10 THEN << n >> ELSE Decimal(n \div 10) \o << n % 10 >>

\* The alphabetical order of two names that differ only in their index.
RECURSIVE DigitsBefore(_, _)
DigitsBefore(a, b) ==
  IF a = <<>> THEN b # <<>>
  ELSE IF b = <<>> THEN FALSE
  ELSE IF Head(a) # Head(b) THEN Head(a) < Head(b)
  ELSE DigitsBefore(Tail(a), Tail(b))

NameBefore(i, j) == DigitsBefore(Decimal(i), Decimal(j))

\* globSync(chunkFilePrefix() + "*"): the indexes of the chunk files on disk,
\* in the alphabetical order of their names.
RECURSIVE SortedNames(_)
SortedNames(S) ==
  IF S = {} THEN <<>>
  ELSE LET first == CHOOSE i \in S : \A j \in S \ {i} : NameBefore(i, j)
       IN << first >> \o SortedNames(S \ {first})

globSync(files) == SortedNames(DOMAIN files)

\* No file at a path: the core file is kept as a sequence of zero or one
\* buffers.
NoFile == <<>>

\* ------------------------------------------------------------ JS built-ins
\* values.slice(from, to): the elements of index from .. to - 1 (0-based).
Slice(s, from, to) == SubSeq(s, from + 1, Min(to, Len(s)))

\* A reader that keeps the last chunk in the place of the concatenation.
LastChunkOnly(ss) == IF ss = <<>> THEN <<>> ELSE ss[Len(ss)]

\* [].concat(...chunks)
RECURSIVE Concat(_)
Concat(ss) == IF ss = <<>> THEN <<>> ELSE Head(ss) \o Concat(Tail(ss))

\* new Map(entries): the keys in the order of their first entry, each with
\* the value of its last entry.  When no key occurs twice that is the
\* sequence of entries itself.
NewMap(es) ==
  LET n == Len(es)
      first == {j \in 1..n : \A k \in 1..(j - 1) : es[k][1] # es[j][1]}
      rank == [j \in first |-> Cardinality({k \in first : k <= j})]
      lastOf(key) ==
        CHOOSE m \in 1..n : es[m][1] = key /\ \A m2 \in (m + 1)..n : es[m2][1] # key
  IN IF Cardinality({es[j][1] : j \in 1..n}) = n
     THEN MapOf(es)
     ELSE MapOf([r \in 1..Cardinality(first) |->
                  LET j == CHOOSE j \in first : rank[j] = r
                  IN << es[j][1], es[lastOf(es[j][1])][2] >>])

\* ------------------------------------------------------------- the state
VARIABLES
  coreFile,     \* the file at file(): NoFile or << its Buffer >>
  chunkFiles,   \* the chunk files on disk: index -> Buffer
  contents,     \* the object the caller passed to writeToCache
  pc,           \* the statement writeToCache is at, "idle" between calls
  files,        \* writeToCache: the globbed chunk files still to unlink
  map,          \* writeToCache: const map
  values,       \* writeToCache: const values
  i,            \* the loop index of guessSafeChunkSize, then of writeToCache
  maxSize,      \* guessSafeChunkSize: let maxSize
  chunkSize,    \* writeToCache: const chunkSize
  chunks,       \* writeToCache: const chunks
  writeStatus,  \* the last writeToCache call: none, running, returned, threw
  obj,          \* what the last readFromCache returned: << >> or << state >>
  readStatus,   \* the last readFromCache call since the last write: none, returned, threw
  given,        \* history: contents.nodes as the caller passed it
  before,       \* history: the chunk files on disk when writeToCache was last called,
                \* and those found on disk before the first call
  beforeStatus, \* history: writeStatus when writeToCache was called
  ops           \* history: what the running writeToCache did so far, in order

vars ==
  << coreFile, chunkFiles, contents, pc, files, map, values, i, maxSize, chunkSize,
     chunks, writeStatus, obj, readStatus, given, before, beforeStatus, ops >>

disk == << coreFile, chunkFiles >>

locals == << files, map, values, i, maxSize, chunkSize, chunks >>

history == << given, before, beforeStatus >>

\* 150 * 1024 * 1024 * 1024 bytes, in KiB.
TARGET_BYTES == 150 * 1024 * 1024

\* A cache directory in which an earlier run left one chunk file.
StaleChunk == (0 :> SerializeEntries(NodesMap(11, 1).entries))

\* The process starts with no call made.  The cache directory is empty, or
\* it holds a chunk file but no core file (the core file was removed).
Init ==
  /\ coreFile = NoFile
  /\ chunkFiles \in {<<>>, StaleChunk}
  /\ contents = [program |-> 1, nodes |-> Undefined]
  /\ pc = "idle"
  /\ files = <<>>
  /\ map = Undefined
  /\ values = <<>>
  /\ i = 0
  /\ maxSize = 0
  /\ chunkSize = Finite(0)
  /\ chunks = Finite(0)
  /\ writeStatus = "none"
  /\ obj = <<>>
  /\ readStatus = "none"
  /\ given = Undefined
  /\ before = chunkFiles
  /\ beforeStatus = "none"
  /\ ops = <<>>

\* ------------------------------------------------------------ readFromCache
\* A reader that stops after the first chunk file.
ReadFirstChunkOnly(chunkfs) ==
  LET names == globSync(chunkfs)
  IN [k \in 1..Min(1, Len(names)) |-> DeserializeEntries(chunkfs[names[k]])]

\* The chunks of readFromCache: every globbed chunk file, deserialized.
ReadChunks(chunkfs) ==
  LET names == globSync(chunkfs)
  IN [k \in 1..Len(names) |-> DeserializeEntries(chunkfs[names[k]])]

\* A reader that, without a core file, returns a state made of the chunk
\* files alone.
readFromChunksWithoutCore(core, chunkfs) ==
  LET cs == ReadChunks(chunkfs)
      o == IF core = NoFile THEN [program |-> 1, nodes |-> Undefined]
           ELSE DeserializeState(core[1])
  IN << "returned",
        << IF Len(cs) # 0 THEN [o EXCEPT !.nodes = NewMap(Concat(cs))] ELSE o >> >>

\* A reader that assigns obj.nodes whether or not there are chunks.
readAlwaysAssigns(core, chunkfs) ==
  IF core = NoFile THEN << "threw", <<>> >>
  ELSE LET o == DeserializeState(core[1])
       IN << "returned", << [o EXCEPT !.nodes = NewMap(Concat(ReadChunks(chunkfs)))] >> >>

\* readFromCache() on a disk: << how the call ended, what it returned >>.
\* readFileSync(file()) throws when there is no core file.
readFromCache(core, chunkfs) ==
  IF core = NoFile THEN << "threw", <<>> >>
  ELSE LET o == DeserializeState(core[1])
           cs == ReadChunks(chunkfs)
           nodes == Concat(cs)
       IN << "returned",
             << IF Len(cs) # 0 THEN [o EXCEPT !.nodes = NewMap(nodes)] ELSE o >> >>

\* readFromCache() on a disk with a core file, when globSync enumerates the
\* chunk files in the order names: the state it returns.
readFromCacheInOrder(core, chunkfs, names) ==
  LET o == DeserializeState(core[1])
      cs == [k \in 1..Len(names) |-> DeserializeEntries(chunkfs[names[k]])]
      nodes == Concat(cs)
  IN IF Len(cs) # 0 THEN [o EXCEPT !.nodes = NewMap(nodes)] ELSE o

ReadFromCache ==
  /\ pc = "idle"
  /\ LET r == readFromCache(coreFile, chunkFiles)
     IN /\ readStatus' = r[1]
        /\ obj' = r[2]
  /\ UNCHANGED << disk, contents, pc, locals, writeStatus, history, ops >>

\* ------------------------------------------------------------- writeToCache
\* A write path that unlinks nothing.
NoStaleFiles(chunkfs) == <<>>

\* A write path that unlinks the first globbed file only.
FirstStaleFileOnly(chunkfs) ==
  LET names == globSync(chunkfs) IN SubSeq(names, 1, Min(1, Len(names)))

\* The chunk files writeToCache unlinks before it writes anything.
StaleFiles(chunkfs) == globSync(chunkfs)

\* A write path that leaves the nodes on the object it serializes.
NotDetached(c) == c

\* contents.nodes = undefined
Detached(c) == [c EXCEPT !.nodes = Undefined]

\* A write path that forgets to put the nodes back.
NotRestored(c, m) == c

\* contents.nodes = map
Restored(c, m) == [c EXCEPT !.nodes = m]

\* Math.floor(valueCount / 11), the stride of the sampling loop.
Stride(valueCount) == valueCount \div 11

\* Math.floor in the place of Math.ceil.
FloorChunkCount(valueCount, size) ==
  IF size.kind = "Infinity" THEN Finite(0)
  ELSE IF size.val = 0 THEN (IF valueCount = 0 THEN NaN ELSE Infinity)
  ELSE Finite(valueCount \div size.val)

\* const chunks = Math.ceil(values.length / chunkSize)
ChunkCount(valueCount, size) == CeilDiv(valueCount, size)

\* A slice that stops one entry early.
ChunkSliceShort(vs, k, size) == Slice(vs, k * size.val, k * size.val + size.val - 1)

\* values.slice(i * chunkSize, i * chunkSize + chunkSize)
ChunkSlice(vs, k, size) == Slice(vs, k * size.val, k * size.val + size.val)

\* A call: the caller's object is fresh, the chunk files are globbed.
WriteToCacheCall(c) ==
  /\ pc = "idle"
  /\ contents' = c
  /\ files' = StaleFiles(chunkFiles)
  /\ pc' = "unlink"
  /\ writeStatus' = "running"
  /\ given' = c.nodes
  /\ before' = chunkFiles
  /\ beforeStatus' = writeStatus
  /\ ops' = <<>>
  /\ obj' = <<>>
  /\ readStatus' = "none"
  /\ map' = Undefined
  /\ values' = <<>>
  /\ i' = 0
  /\ maxSize' = 0
  /\ chunkSize' = Finite(0)
  /\ chunks' = Finite(0)
  /\ UNCHANGED disk

\* A file operation throws: the error leaves writeToCache as it is.
Throw ==
  /\ pc' = "idle"
  /\ writeStatus' = "threw"
  /\ UNCHANGED << disk, contents, locals, obj, readStatus, history, ops >>

\* An unlink that leaves the file on disk.
UnlinkLeavesFile ==
  /\ pc = "unlink"
  /\ files # <<>>
  /\ files' = Tail(files)
  /\ ops' = Append(ops, "unlink")
  /\ UNCHANGED << disk, contents, pc, map, values, i, maxSize, chunkSize, chunks,
                  writeStatus, obj, readStatus, history >>

\* forEach(file => unlinkSync(file)): one more file.
Unlink ==
  /\ pc = "unlink"
  /\ files # <<>>
  /\ chunkFiles' = [k \in DOMAIN chunkFiles \ {Head(files)} |-> chunkFiles[k]]
  /\ files' = Tail(files)
  /\ ops' = Append(ops, "unlink")
  /\ UNCHANGED << coreFile, contents, pc, map, values, i, maxSize, chunkSize, chunks,
                  writeStatus, obj, readStatus, history >>

UnlinkThrows ==
  /\ pc = "unlink"
  /\ files # <<>>
  /\ Throw

\* A write path that writes the core file first and detaches the nodes after.
WriteCoreFileThenDetach ==
  /\ pc = "unlink"
  /\ files = <<>>
  /\ coreFile' = << SerializeState(contents) >>
  /\ map' = contents.nodes
  /\ contents' = Detached(contents)
  /\ pc' = "restore"
  /\ ops' = ops \o << "core", "detach" >>
  /\ UNCHANGED << chunkFiles, files, values, i, maxSize, chunkSize, chunks,
                  writeStatus, obj, readStatus, history >>

\* const map = contents.nodes; contents.nodes = undefined
Detach ==
  /\ pc = "unlink"
  /\ files = <<>>
  /\ map' = contents.nodes
  /\ contents' = Detached(contents)
  /\ pc' = "core"
  /\ ops' = Append(ops, "detach")
  /\ UNCHANGED << disk, files, values, i, maxSize, chunkSize, chunks, writeStatus,
                  obj, readStatus, history >>

\* A core write that keeps a core file already on disk.
WriteCoreFileIfMissing ==
  /\ pc = "core"
  /\ coreFile' = IF coreFile = NoFile THEN << SerializeState(contents) >> ELSE coreFile
  /\ pc' = "restore"
  /\ ops' = Append(ops, "core")
  /\ UNCHANGED << chunkFiles, contents, locals, writeStatus, obj, readStatus, history >>

\* writeFileSync(file(), v8.serialize(contents))
WriteCoreFile ==
  /\ pc = "core"
  /\ coreFile' = << SerializeState(contents) >>
  /\ pc' = "restore"
  /\ ops' = Append(ops, "core")
  /\ UNCHANGED << chunkFiles, contents, locals, writeStatus, obj, readStatus, history >>

WriteCoreFileThrows ==
  /\ pc = "core"
  /\ Throw

\* contents.nodes = map; if (map) { values = [...map.entries()]; the call of
\* guessSafeChunkSize(values) with maxSize = 0 and i = 0 }.  An empty Map is
\* truthy.
Restore ==
  /\ pc = "restore"
  /\ contents' = Restored(contents, map)
  /\ ops' = Append(ops, "reattach")
  /\ IF map.type = "Map"
     THEN /\ values' = map.entries
          /\ pc' = "sample"
          /\ UNCHANGED writeStatus
     ELSE /\ pc' = "idle"
          /\ writeStatus' = "returned"
          /\ UNCHANGED values
  /\ UNCHANGED << disk, files, map, i, maxSize, chunkSize, chunks, obj, readStatus,
                  history >>

\* One turn of the loop of guessSafeChunkSize.
Sample ==
  /\ pc = "sample"
  /\ i < Len(values)
  /\ maxSize' = Max(BufferLength(SerializeEntry(values[i + 1])), maxSize)
  /\ i' = i + Stride(Len(values))
  /\ UNCHANGED << disk, contents, pc, files, map, values, chunkSize, chunks,
                  writeStatus, obj, readStatus, history, ops >>

\* The loop of guessSafeChunkSize is over: it returns, chunks is computed,
\* the loop of writeToCache starts.
GuessReturn ==
  /\ pc = "sample"
  /\ ~(i < Len(values))
  /\ chunkSize' = FloorDiv(TARGET_BYTES, maxSize)
  /\ chunks' = ChunkCount(Len(values), chunkSize')
  /\ i' = 0
  /\ pc' = "chunk"
  /\ UNCHANGED << disk, contents, files, map, values, maxSize, writeStatus, obj,
                  readStatus, history, ops >>

\* A chunk loop that names its files from 1.
WriteChunkOneBased ==
  /\ pc = "chunk"
  /\ LessThan(i, chunks)
  /\ chunkFiles' =
       ((i + 1) :> SerializeEntries(ChunkSlice(values, i, chunkSize))) @@ chunkFiles
  /\ i' = i + 1
  /\ ops' = Append(ops, "chunk")
  /\ UNCHANGED << coreFile, contents, pc, files, map, values, maxSize, chunkSize,
                  chunks, writeStatus, obj, readStatus, history >>

\* One turn of the loop of writeToCache: one chunk file.
WriteChunk ==
  /\ pc = "chunk"
  /\ LessThan(i, chunks)
  /\ chunkFiles' = (i :> SerializeEntries(ChunkSlice(values, i, chunkSize))) @@ chunkFiles
  /\ i' = i + 1
  /\ ops' = Append(ops, "chunk")
  /\ UNCHANGED << coreFile, contents, pc, files, map, values, maxSize, chunkSize,
                  chunks, writeStatus, obj, readStatus, history >>

WriteChunkThrows ==
  /\ pc = "chunk"
  /\ LessThan(i, chunks)
  /\ Throw

\* The loop of writeToCache is over: the call returns.
Return ==
  /\ pc = "chunk"
  /\ ~LessThan(i, chunks)
  /\ pc' = "idle"
  /\ writeStatus' = "returned"
  /\ UNCHANGED << disk, contents, locals, obj, readStatus, history, ops >>

StateInputs ==
  {[program |-> p, nodes |-> n] : p \in 1..MaxProgram, n \in NodesInputs}

Next ==
  \/ \E c \in StateInputs : WriteToCacheCall(c)
  \/ Unlink
  \/ UnlinkThrows
  \/ Detach
  \/ WriteCoreFile
  \/ WriteCoreFileThrows
  \/ Restore
  \/ Sample
  \/ GuessReturn
  \/ WriteChunk
  \/ WriteChunkThrows
  \/ Return
  \/ ReadFromCache

Spec == Init /\ [][Next]_vars

\* ------------------------------------------- guessSafeChunkSize on its own
\* The units the sizes of the entries are drawn in: KiB, MiB and GiB.
Scales == {1, 1024, 1024 * 1024}

\* A sequence of n entries: the entry of key heavy encodes to size KiB, every
\* other entry to half of it (rounded up).
EstimatorValues(n, heavy, size) ==
  [k \in 1..n |->
    << k, [id |-> k, rev |-> 1, kib |-> IF k = heavy THEN size ELSE (size + 1) \div 2] >>]

\* The sequences guessSafeChunkSize is called with: 11 entries (every entry
\* is sampled) or 22 (every other entry is), the largest entry first (a
\* sampled one) or second (with 22 entries, not a sampled one).
EstimatorInputs ==
  {EstimatorValues(n, heavy, m * scale) :
     n \in {11, 22}, heavy \in {1, 2}, m \in 1..MaxSampleSize, scale \in Scales}

\* writeToCache has written the core file on an empty disk and calls
\* guessSafeChunkSize(values).
EstInit ==
  /\ values \in EstimatorInputs
  /\ map = MapOf(values)
  /\ given = map
  /\ contents = [program |-> 1, nodes |-> map]
  /\ coreFile = << SerializeState(Detached(contents)) >>
  /\ chunkFiles = <<>>
  /\ pc = "sample"
  /\ files = <<>>
  /\ i = 0
  /\ maxSize = 0
  /\ chunkSize = Finite(0)
  /\ chunks = Finite(0)
  /\ writeStatus = "running"
  /\ obj = <<>>
  /\ readStatus = "none"
  /\ before = <<>>
  /\ beforeStatus = "none"
  /\ ops = << "detach", "core", "reattach" >>

EstNext ==
  \/ Sample
  \/ GuessReturn

EstSpec == EstInit /\ [][EstNext]_vars

\* ================================================================ claims
\* The entries of a nodes field, as a set of [key, node] pairs.
EntrySet(nodes) == {nodes.entries[j] : j \in 1..Len(nodes.entries)}

\* Two nodes fields are Maps with the same keys and the same value per key.
SameMap(a, b) ==
  /\ a.type = "Map"
  /\ b.type = "Map"
  /\ Len(a.entries) = Len(b.entries)
  /\ EntrySet(a) = EntrySet(b)

\* A readFromCache that returned, right after a writeToCache that returned.
WrittenThenRead == writeStatus = "returned" /\ readStatus = "returned"

\* The number of entries held by the chunk files fs.
RECURSIVE EntryCount(_)
EntryCount(fs) ==
  IF DOMAIN fs = {} THEN 0
  ELSE LET k == CHOOSE k \in DOMAIN fs : TRUE
       IN fs[k][1].a + EntryCount([j \in DOMAIN fs \ {k} |-> fs[j]])

\* The chunk file of index k that the running (or last) writeToCache writes.
WrittenChunk(k) == SerializeEntries(ChunkSlice(given.entries, k, chunkSize))

\* C1 as stated: a completed writeToCache of a nodes Map of any size, 0
\* included, followed by readFromCache returns a state whose nodes is a Map
\* equal to the written one.
C1_RoundTripAnySize ==
  (WrittenThenRead /\ given.type = "Map") => SameMap(obj[1].nodes, given)

\* C1 amended: a completed writeToCache of a nodes Map with at least one
\* entry followed by readFromCache returns a nodes Map equal to the written
\* one, whatever the number of chunk files; for a Map with no entry the state
\* read back has no nodes (undefined), not an empty Map.
C1_RoundTrip ==
  (WrittenThenRead /\ given.type = "Map") =>
    IF given.entries # <<>>
    THEN SameMap(obj[1].nodes, given)
    ELSE obj[1].nodes = Undefined

C1_Witness ==
  /\ WrittenThenRead
  /\ Len(given.entries) = MaxNodes
  /\ Cardinality(DOMAIN chunkFiles) >= 2
  /\ SameMap(obj[1].nodes, given)

\* C2: after a completed write of N1 entries followed by a completed write of
\* N2 < N1 entries, exactly ceil(N2 / chunkSize) chunk files are on disk and
\* every one of them is a file the second write wrote.
C2_NoOrphanedChunks ==
  ( /\ writeStatus = "returned"
    /\ beforeStatus = "returned"
    /\ given.type = "Map"
    /\ Len(given.entries) < EntryCount(before) ) =>
    /\ Cardinality(DOMAIN chunkFiles) = CeilDiv(Len(given.entries), chunkSize).val
    /\ \A k \in DOMAIN chunkFiles : chunkFiles[k] = WrittenChunk(k)

C2_Witness ==
  /\ writeStatus = "returned"
  /\ beforeStatus = "returned"
  /\ EntryCount(before) = MaxNodes
  /\ Cardinality(DOMAIN before) = 2
  /\ Len(given.entries) = 11
  /\ Cardinality(DOMAIN chunkFiles) = 1

\* C3 as stated: for a non-empty entry sequence every turn of the sampling
\* loop of guessSafeChunkSize moves the index forward (so the loop ends after
\* at most valueCount turns), and the chunkSize it returns is a positive
\* integer computed from at least one sample.
C3_EstimatorTotal ==
  [][ (pc = "sample" /\ values # <<>>) =>
        /\ (pc' = "sample" => i' > i)
        /\ (pc' = "chunk" =>
              maxSize > 0 /\ chunkSize'.kind = "finite" /\ chunkSize'.val > 0) ]_vars

\* The order of the operations of one call, place giving each operation its
\* place: no operation comes after one of a higher place; detach, core write
\* and reattach happen at most once; and an operation is preceded by the
\* detach, the core write and the reattach of a lower place.
InOrder(place) ==
  /\ \A j \in 1..Len(ops) : \A k \in (j + 1)..Len(ops) :
       /\ place[ops[j]] <= place[ops[k]]
       /\ (place[ops[j]] = place[ops[k]]) => ops[j] \in {"unlink", "chunk"}
  /\ \A j \in 1..Len(ops) :
       \A op \in {"detach", "core", "reattach"} :
         (place[op] < place[ops[j]] /\ place[op] > place["unlink"]) =>
           \E k \in 1..(j - 1) : ops[k] = op

ChunksWritten == Cardinality({j \in 1..Len(ops) : ops[j] = "chunk"})

\* C4 as stated: detach, write core file, write all chunk files, reattach, in
\* that order: the nodes are put back only after the last chunk file.
C4_ReattachAfterChunks ==
  InOrder([unlink |-> 0, detach |-> 1, core |-> 2, chunk |-> 3, reattach |-> 4])

\* C4 amended: writeToCache detaches the nodes, writes the core file,
\* reattaches the nodes and then writes all chunk files, in that order: the
\* nodes are back on the caller's object before the first chunk file is
\* written.
C4_WriteOrder ==
  /\ InOrder([unlink |-> 0, detach |-> 1, core |-> 2, reattach |-> 3, chunk |-> 4])
  /\ (writeStatus = "returned") => \E j \in 1..Len(ops) : ops[j] = "reattach"

C4_Witness ==
  /\ writeStatus = "returned"
  /\ ChunksWritten = 2
  /\ \E j \in 1..Len(ops) : ops[j] = "reattach"

\* C5: when writeToCache has returned, the caller's nodes field is what it
\* was when the call was made: absent, an empty Map or a non-empty Map.
C5_NodesRestored == (writeStatus = "returned") => contents.nodes = given

C5_Witness ==
  /\ writeStatus = "returned"
  /\ given.type = "Map"
  /\ Len(given.entries) = MaxNodes
  /\ contents.nodes = given

\* C6: in every state, during a write, after a write that returned and after
\* a write that threw, the core file on disk (when there is one) encodes a
\* state whose nodes field is absent.
C6_CoreFileWithoutNodes ==
  (coreFile # NoFile) => DeserializeState(coreFile[1]).nodes = Undefined

C6_Witness ==
  /\ writeStatus = "threw"
  /\ coreFile # NoFile
  /\ ops # <<>>
  /\ ops[Len(ops)] = "chunk"
  /\ given.entries # <<>>
  /\ LessThan(i, chunks)
  /\ DeserializeState(coreFile[1]).nodes = Undefined

\* The number of entries in a chunk file.
EntriesIn(buf) == Len(DeserializeEntries(buf))

\* C7: a completed write of E entries with estimated chunk size C wrote
\* exactly ceil(E / C) chunk files (the least n with n * C >= E), no chunk
\* file holds more than C entries, and every chunk file but the last holds
\* exactly C.
C7_ChunkCountBound ==
  (writeStatus = "returned" /\ given.type = "Map") =>
    LET E == Len(given.entries)
        n == Cardinality(DOMAIN chunkFiles)
    IN /\ ChunksWritten = n
       /\ IF E = 0 THEN n = 0
          ELSE /\ chunkSize.kind = "finite"
               /\ chunkSize.val > 0
               /\ n * chunkSize.val >= E
               /\ (n - 1) * chunkSize.val < E
               /\ \A k \in DOMAIN chunkFiles :
                    /\ EntriesIn(chunkFiles[k]) <= chunkSize.val
                    /\ EntriesIn(chunkFiles[k]) >= 1
                    /\ (\E m \in DOMAIN chunkFiles : m > k) =>
                         EntriesIn(chunkFiles[k]) = chunkSize.val

C7_Witness ==
  /\ writeStatus = "returned"
  /\ Len(given.entries) = MaxNodes
  /\ DOMAIN chunkFiles = {0, 1}
  /\ EntriesIn(chunkFiles[0]) = chunkSize.val
  /\ EntriesIn(chunkFiles[1]) < chunkSize.val
  /\ Len(given.entries) % chunkSize.val # 0

\* C8: a completed writeToCache of a state whose nodes is absent or an empty
\* Map leaves no chunk file on disk, whatever chunk files were there before,
\* and a readFromCache that follows returns the written core field.
C8_EmptyCollection ==
  (writeStatus = "returned" /\ given.entries = <<>>) =>
    /\ DOMAIN chunkFiles = {}
    /\ readStatus # "threw"
    /\ (readStatus = "returned") => obj[1].program = contents.program

C8_Witness ==
  /\ writeStatus = "returned"
  /\ given.entries = <<>>
  /\ Cardinality(DOMAIN before) = 2
  /\ DOMAIN chunkFiles = {}
  /\ readStatus = "returned"
  /\ obj[1].program = contents.program

\* C9: in every state the chunk files on disk are of one generation: they
\* are among the files that were on disk when the call was made, unchanged,
\* or they are all files the running call wrote; and no file is unlinked
\* after the core file or a chunk file was written.
C9_SingleGeneration ==
  /\ \/ \A k \in DOMAIN chunkFiles : k \in DOMAIN before /\ chunkFiles[k] = before[k]
     \/ \A k \in DOMAIN chunkFiles : k < ChunksWritten /\ chunkFiles[k] = WrittenChunk(k)
  /\ \A j \in 1..Len(ops) : \A k \in (j + 1)..Len(ops) :
       ops[j] \in {"core", "chunk"} => ops[k] # "unlink"

C9_Witness ==
  /\ writeStatus = "threw"
  /\ DOMAIN before # {}
  /\ Len(given.entries) = MaxNodes
  /\ DOMAIN chunkFiles = {0}
  /\ ChunksWritten = 1
  /\ chunkFiles[0] = WrittenChunk(0)
  /\ chunkFiles[0] # before[0]

\* C10: a readFromCache on a disk without a core file throws and returns no
\* state, also when chunk files are on disk.
C10_MissingCoreFile ==
  (readStatus # "none" /\ coreFile = NoFile) => (readStatus = "threw" /\ obj = <<>>)

C10_Witness ==
  /\ readStatus = "threw"
  /\ coreFile = NoFile
  /\ DOMAIN chunkFiles # {}
  /\ obj = <<>>

\* The 0-based indexes the loop of guessSafeChunkSize samples in a sequence
\* of n entries when its stride is not zero.
SampledIndexes(n) == {j \in 0..(n - 1) : j % Stride(n) = 0}

\* The ceiling the comment of guessSafeChunkSize names, 1.5 GiB, in KiB.
CommentedCeiling == 1536 * 1024

\* The largest Buffer, 2 GiB, in KiB.
MaxBufferLength == 2 * 1024 * 1024

\* C11 as stated: the chunkSize returned for a non-empty sequence is
\* floor(1.5 GiB / maxSize), maxSize being the largest encoded length among
\* the sampled entries, so chunkSize entries of at most maxSize encode to no
\* more than 2 GiB.
C11_SafeChunkSize ==
  (pc = "chunk" /\ values # <<>>) =>
    /\ \A j \in SampledIndexes(Len(values)) :
         BufferLength(SerializeEntry(values[j + 1])) <= maxSize
    /\ \E j \in SampledIndexes(Len(values)) :
         BufferLength(SerializeEntry(values[j + 1])) = maxSize
    /\ chunkSize = FloorDiv(CommentedCeiling, maxSize)
    /\ chunkSize.val * maxSize <= MaxBufferLength

\* The indexes of the chunk files fs, in increasing order.
RECURSIVE IndexOrder(_)
IndexOrder(S) ==
  IF S = {} THEN <<>>
  ELSE LET least == CHOOSE k \in S : \A m \in S : k <= m
       IN << least >> \o IndexOrder(S \ {least})

\* The entries of the chunk files on disk, the files taken by index.
EntriesByIndex ==
  LET order == IndexOrder(DOMAIN chunkFiles)
  IN Concat([k \in 1..Len(order) |-> DeserializeEntries(chunkFiles[order[k]])])

\* C12: the chunk files one writeToCache wrote, concatenated by index, are
\* the snapshot sequence of the entries: while the chunk loop runs they are
\* the first entries of the snapshot, in order, and when the call has
\* returned they are all of them, each once.
C12_ChunkPartition ==
  /\ (pc = "chunk") =>
       /\ Len(EntriesByIndex) <= Len(values)
       /\ EntriesByIndex = SubSeq(values, 1, Len(EntriesByIndex))
  /\ (writeStatus = "returned" /\ given.type = "Map") =>
       EntriesByIndex = given.entries

C12_Witness ==
  /\ writeStatus = "returned"
  /\ Len(given.entries) = MaxNodes
  /\ Cardinality(DOMAIN chunkFiles) = 2
  /\ EntriesByIndex = given.entries

\* C13: when writeToCache has returned after writing k chunk files, the chunk
\* files on disk are those of index 0 .. k - 1 and no other, whatever files
\* earlier calls left.
C13_ContiguousIndexes ==
  (writeStatus = "returned") => DOMAIN chunkFiles = 0..(ChunksWritten - 1)

C13_Witness ==
  /\ writeStatus = "returned"
  /\ ChunksWritten = 2
  /\ DOMAIN before # {}
  /\ beforeStatus = "threw"
  /\ DOMAIN chunkFiles = {0, 1}

\* The [key, node] pairs held by all chunk files on disk.
AllChunkEntries ==
  UNION {{DeserializeEntries(chunkFiles[k])[j] : j \in 1..chunkFiles[k][1].a} :
           k \in DOMAIN chunkFiles}

\* C14: readFromCache returns the decoded core state with nodes replaced
\* only when the chunk files yield entries, and then nodes is the Map of all
\* entries of all chunk files; with no chunk file nodes is what the core
\* file encodes, never an empty Map put in its place.
C14_ReadReattach ==
  (readStatus = "returned") =>
    LET core == DeserializeState(coreFile[1])
    IN /\ obj[1].program = core.program
       /\ IF AllChunkEntries # {}
          THEN /\ obj[1].nodes.type = "Map"
               /\ EntrySet(obj[1].nodes) = AllChunkEntries
               /\ Len(obj[1].nodes.entries) = EntryCount(chunkFiles)
          ELSE obj[1].nodes = core.nodes
       /\ (DOMAIN chunkFiles = {}) =>
            (obj[1].nodes = core.nodes /\ obj[1].nodes # MapOf(<<>>))

C14_Witness ==
  /\ WrittenThenRead
  /\ given = MapOf(<<>>)
  /\ DOMAIN before # {}
  /\ DOMAIN chunkFiles = {}
  /\ obj[1].nodes = Undefined

\* Every order in which the files of the index set S can be enumerated.
Orders(S) ==
  {s \in [1..Cardinality(S) -> S] : \A a, b \in 1..Cardinality(S) : a # b => s[a] # s[b]}

\* C15: whatever the order in which the chunk files on disk are enumerated
\* and decoded, readFromCache returns the same core field and a nodes Map
\* with the same keys and the same value for each key as the one it returned.
C15_ReadOrderIndependent ==
  (readStatus = "returned") =>
    \A names \in Orders(DOMAIN chunkFiles) :
      LET r == readFromCacheInOrder(coreFile, chunkFiles, names)
      IN /\ r.program = obj[1].program
         /\ r.nodes.type = obj[1].nodes.type
         /\ EntrySet(r.nodes) = EntrySet(obj[1].nodes)
         /\ Len(r.nodes.entries) = Len(obj[1].nodes.entries)

C15_Witness ==
  /\ WrittenThenRead
  /\ DOMAIN chunkFiles = {0, 1}
  /\ LET r == readFromCacheInOrder(coreFile, chunkFiles, << 1, 0 >>)
     IN /\ SameMap(r.nodes, obj[1].nodes)
        /\ r.nodes.entries # obj[1].nodes.entries

\* C16: doubling the largest sampled size halves the chunk size: the chunk
\* size guessSafeChunkSize returns for a largest sample m and the one it
\* computes from 2 * m differ from the ratio 2 by less than one entry, that
\* is, twice the second differs from the first by less than two.
C16_EstimatorHalves ==
  (pc = "chunk" /\ maxSize > 0) =>
    LET whole == chunkSize.val
        half == FloorDiv(TARGET_BYTES, 2 * maxSize).val
    IN /\ chunkSize.kind = "finite"
       /\ 2 * half - whole < 2
       /\ whole - 2 * half < 2

C16_Witness ==
  /\ pc = "chunk"
  /\ maxSize > 1
  /\ chunkSize.val % 2 = 1
  /\ chunkSize.val - 2 * FloorDiv(TARGET_BYTES, 2 * maxSize).val = 1

\* C17 as stated: a writeToCache of a nodes Map without entries never enters
\* guessSafeChunkSize and computes no chunk size.
C17_EmptyMapSkipsEstimator ==
  (given = MapOf(<<>>)) => (pc # "sample" /\ chunkSize = Finite(0))

\* C17 amended: a writeToCache of a nodes Map without entries does call
\* guessSafeChunkSize, which takes no sample and returns Infinity (the target
\* divided by a maxSize of 0); zero chunks are computed from it and no chunk
\* file is written.  guessSafeChunkSize is not called only when nodes is
\* absent.
C17_EmptyMapEstimate ==
  /\ (given = MapOf(<<>>) /\ (pc = "chunk" \/ writeStatus = "returned")) =>
       /\ maxSize = 0
       /\ chunkSize = Infinity
       /\ chunks = Finite(0)
       /\ ChunksWritten = 0
       /\ DOMAIN chunkFiles = {}
  /\ (given = Undefined) => (pc \notin {"sample", "chunk"} /\ chunkSize = Finite(0))

C17_Witness ==
  /\ writeStatus = "returned"
  /\ given = MapOf(<<>>)
  /\ maxSize = 0
  /\ chunkSize = Infinity
  /\ DOMAIN before # {}
  /\ DOMAIN chunkFiles = {}

\* C18 as stated: when writeToCache has thrown, the caller's nodes field is
\* the Map the caller passed; in particular when the write of the core file
\* threw.
C18_RestoredOnFailure == (writeStatus = "threw") => contents.nodes = given

\* C19: a readFromCache after writeToCache calls of which the last returned
\* gives back the core field of that last call and a nodes field whose
\* entries are all entries of that last call: none of an earlier call, and
\* none at all when the last call had no nodes or an empty Map.
C19_LastWriteWins ==
  WrittenThenRead =>
    /\ obj[1].program = contents.program
    /\ EntrySet(obj[1].nodes) \subseteq EntrySet(given)
    /\ Len(obj[1].nodes.entries) <= Len(given.entries)

C19_Witness ==
  /\ WrittenThenRead
  /\ beforeStatus = "returned"
  /\ EntryCount(before) = MaxNodes
  /\ Len(given.entries) = 11
  /\ DeserializeEntries(before[0])[1] \notin EntrySet(given)
  /\ SameMap(obj[1].nodes, given)

====
